---- MODULE Spec2Model ----
(***************************************************************************)
(* Model of src/app.py: the Dash application "Nuclear Maintenance AI       *)
(* Scheduler".  The program holds four module-level tables (sensors,       *)
(* workers_df, tasks_df, schedule_df) built once at import time, and three *)
(* callbacks: display_page (URL routing), update_data_model_view and       *)
(* update_agent_view (button-driven view switches).  No operation of the   *)
(* program writes to the tables after import.                              *)
(***************************************************************************)
EXTENDS Integers, Sequences, FiniteSets, TLC

VARIABLES
    workers_df,          \* app.py:131  the worker table
    tasks_df,            \* app.py:132  the maintenance-task table
    schedule_df,         \* app.py:133  the schedule (assignment) table
    pathname,            \* the "pathname" property of dcc.Location(id="url")
    page_content,        \* children of html.Div(id="page-content")
    data_model_content,  \* children of html.Div(id="data-model-content")
    agent_view_content,  \* children of html.Div(id="agent-view-content")
    n_clicks,            \* the n_clicks property of the six view buttons
    gantt_data,          \* rows of the Gantt chart built by create_schedule_page
    utilization,         \* worker_name -> hours, built by create_schedule_page
    ctx_triggered        \* dash.callback_context.triggered of the last callback

vars == << workers_df, tasks_df, schedule_df, pathname, page_content,
           data_model_content, agent_view_content, n_clicks,
           gantt_data, utilization, ctx_triggered >>

tables == << workers_df, tasks_df, schedule_df >>

-----------------------------------------------------------------------------
(* Bounds *)

\* The number of clicks followed on each view button of a mounted page.
MaxClicks == 3

-----------------------------------------------------------------------------
(* Timestamps.  Every timestamp of the tables lies in January 2024 and on  *)
(* a whole hour; the string "2024-01-DD HH:00" is kept as its two varying  *)
(* fields, and a due date "2024-01-DD" as its day.                          *)

ts(d, h) == [day |-> d, hour |-> h]

\* pd.to_datetime followed by a difference in hours: the hours elapsed since
\* 2024-01-01 00:00.
to_datetime(t) == (t.day - 1) * 24 + t.hour

-----------------------------------------------------------------------------
(* The tables *)

worker_rows ==
    << [id |-> "W001", name |-> "John Mitchell",
        skills |-> {"Reactor Systems", "Pumps", "Electrical"},
        certification |-> "Senior", availability |-> 90, shift |-> "Day"],
       [id |-> "W002", name |-> "Sarah Chen",
        skills |-> {"Instrumentation", "Controls", "Calibration"},
        certification |-> "Senior", availability |-> 85, shift |-> "Day"],
       [id |-> "W003", name |-> "Michael Rodriguez",
        skills |-> {"Mechanical", "Pumps", "Valves"},
        certification |-> "Journeyman", availability |-> 95, shift |-> "Day"],
       [id |-> "W004", name |-> "Emily Watson",
        skills |-> {"Electrical", "Motors", "Generators"},
        certification |-> "Senior", availability |-> 80, shift |-> "Night"],
       [id |-> "W005", name |-> "David Kim",
        skills |-> {"Reactor Systems", "Safety Systems"},
        certification |-> "Senior", availability |-> 90, shift |-> "Day"],
       [id |-> "W006", name |-> "Lisa Thompson",
        skills |-> {"HVAC", "Containment", "Ventilation"},
        certification |-> "Journeyman", availability |-> 88, shift |-> "Night"],
       [id |-> "W007", name |-> "Robert Garcia",
        skills |-> {"Welding", "Piping", "Mechanical"},
        certification |-> "Senior", availability |-> 92, shift |-> "Day"],
       [id |-> "W008", name |-> "Amanda Foster",
        skills |-> {"Instrumentation", "Radiation Monitoring"},
        certification |-> "Senior", availability |-> 87, shift |-> "Day"],
       [id |-> "W009", name |-> "James Wilson",
        skills |-> {"Diesel Generators", "Electrical", "Mechanical"},
        certification |-> "Journeyman", availability |-> 90, shift |-> "Night"],
       [id |-> "W010", name |-> "Jennifer Lee",
        skills |-> {"Controls", "PLC", "Safety Systems"},
        certification |-> "Senior", availability |-> 85, shift |-> "Day"] >>

\* generate_workers(): availability is kept in percent (0.9 -> 90).
generate_workers == worker_rows

task_rows ==
    << [id |-> "MT001", equipment |-> "Reactor Coolant Pump A",
        task |-> "Bearing Replacement", priority |-> "Critical",
        skills_required |-> {"Pumps", "Mechanical"},
        estimated_hours |-> 8, due_date |-> 5, status |-> "Scheduled"],
       [id |-> "MT002", equipment |-> "Reactor Coolant Pump A",
        task |-> "Vibration Analysis Follow-up", priority |-> "High",
        skills_required |-> {"Instrumentation"},
        estimated_hours |-> 2, due_date |-> 3, status |-> "In Progress"],
       [id |-> "MT003", equipment |-> "Steam Generator B",
        task |-> "Pressure Sensor Calibration", priority |-> "Medium",
        skills_required |-> {"Instrumentation", "Calibration"},
        estimated_hours |-> 4, due_date |-> 8, status |-> "Pending"],
       [id |-> "MT004", equipment |-> "Containment Fan Unit C",
        task |-> "Motor Inspection", priority |-> "Medium",
        skills_required |-> {"Electrical", "Motors"},
        estimated_hours |-> 3, due_date |-> 6, status |-> "Scheduled"],
       [id |-> "MT005", equipment |-> "Emergency Diesel Generator 1",
        task |-> "Routine Testing", priority |-> "High",
        skills_required |-> {"Diesel Generators", "Electrical"},
        estimated_hours |-> 6, due_date |-> 4, status |-> "Scheduled"],
       [id |-> "MT006", equipment |-> "Main Feedwater Pump D",
        task |-> "Seal Inspection", priority |-> "High",
        skills_required |-> {"Pumps", "Mechanical"},
        estimated_hours |-> 5, due_date |-> 7, status |-> "Pending"],
       [id |-> "MT007", equipment |-> "Reactor Coolant Pump A",
        task |-> "Thermal Imaging Survey", priority |-> "Medium",
        skills_required |-> {"Instrumentation"},
        estimated_hours |-> 2, due_date |-> 9, status |-> "Pending"],
       [id |-> "MT008", equipment |-> "Steam Generator B",
        task |-> "Tube Inspection", priority |-> "High",
        skills_required |-> {"Reactor Systems", "Instrumentation"},
        estimated_hours |-> 12, due_date |-> 10, status |-> "Pending"] >>

generate_maintenance_tasks == task_rows

schedule_rows ==
    << [task_id |-> "MT002", worker_id |-> "W002", worker_name |-> "Sarah Chen",
        start |-> ts(3, 8), end |-> ts(3, 10),
        equipment |-> "Reactor Coolant Pump A"],
       [task_id |-> "MT005", worker_id |-> "W009", worker_name |-> "James Wilson",
        start |-> ts(4, 20), end |-> ts(5, 2),
        equipment |-> "Emergency Diesel Generator 1"],
       [task_id |-> "MT001", worker_id |-> "W003", worker_name |-> "Michael Rodriguez",
        start |-> ts(5, 8), end |-> ts(5, 16),
        equipment |-> "Reactor Coolant Pump A"],
       [task_id |-> "MT001", worker_id |-> "W007", worker_name |-> "Robert Garcia",
        start |-> ts(5, 8), end |-> ts(5, 16),
        equipment |-> "Reactor Coolant Pump A"],
       [task_id |-> "MT004", worker_id |-> "W004", worker_name |-> "Emily Watson",
        start |-> ts(6, 20), end |-> ts(6, 23),
        equipment |-> "Containment Fan Unit C"],
       [task_id |-> "MT006", worker_id |-> "W003", worker_name |-> "Michael Rodriguez",
        start |-> ts(7, 8), end |-> ts(7, 13),
        equipment |-> "Main Feedwater Pump D"],
       [task_id |-> "MT003", worker_id |-> "W002", worker_name |-> "Sarah Chen",
        start |-> ts(8, 8), end |-> ts(8, 12),
        equipment |-> "Steam Generator B"],
       [task_id |-> "MT007", worker_id |-> "W008", worker_name |-> "Amanda Foster",
        start |-> ts(9, 8), end |-> ts(9, 10),
        equipment |-> "Reactor Coolant Pump A"],
       [task_id |-> "MT008", worker_id |-> "W005", worker_name |-> "David Kim",
        start |-> ts(10, 8), end |-> ts(10, 20),
        equipment |-> "Steam Generator B"],
       [task_id |-> "MT008", worker_id |-> "W002", worker_name |-> "Sarah Chen",
        start |-> ts(10, 8), end |-> ts(10, 20),
        equipment |-> "Steam Generator B"] >>

\* A slip in the hand-written table: MT003 is entered for W002 on the 10th,
\* inside W002's MT008 slot.
generate_schedule_overlap ==
    [schedule_rows EXCEPT ![7].start = ts(10, 8), ![7].end = ts(10, 12)]

generate_schedule == schedule_rows

-----------------------------------------------------------------------------
(* Page builders *)

RECURSIVE SumHours_hour_of_day(_, _)
\* A slip in the hours column: the difference of the hours of the day
\* (.dt.hour) instead of the elapsed time, so a slot that crosses midnight
\* counts wrongly.
SumHours_hour_of_day(df, name) ==
    IF df = << >> THEN 0
    ELSE LET row == Head(df)
             hours == row.end.hour - row.start.hour
         IN  (IF row.worker_name = name THEN hours ELSE 0)
             + SumHours_hour_of_day(Tail(df), name)

RECURSIVE SumHours(_, _)
\* groupby("worker_name")["hours"].sum() for one group: the sum of
\* (end - start) in hours over the rows of df whose worker_name is name.
SumHours(df, name) ==
    IF df = << >> THEN 0
    ELSE LET row == Head(df)
             hours == to_datetime(row.end) - to_datetime(row.start)
         IN  (IF row.worker_name = name THEN hours ELSE 0)
             + SumHours(Tail(df), name)

\* The Gantt rows of create_schedule_page: one per schedule row, the priority
\* and the task name looked up in tasks_df by task id, "Medium" and the task
\* id when tasks_df has no such task.
GanttRows(sdf, tdf) ==
    [i \in 1..Len(sdf) |->
        LET row == sdf[i]
            hits == {j \in 1..Len(tdf) : tdf[j].id = row.task_id}
            first == CHOOSE j \in hits : \A k \in hits : j <= k
        IN  [Task     |-> IF hits # {} THEN tdf[first].task ELSE row.task_id,
             Equipment |-> row.equipment,
             Start    |-> to_datetime(row.start),
             Finish   |-> to_datetime(row.end),
             Resource |-> row.worker_name,
             Priority |-> IF hits # {} THEN tdf[first].priority ELSE "Medium"]]

\* The utilization frame of create_schedule_page: one entry per worker_name
\* that occurs in the schedule.
Utilization(sdf) ==
    [name \in {sdf[i].worker_name : i \in 1..Len(sdf)} |-> SumHours(sdf, name)]

\* What no figure holds while the schedule page is not the page shown.
NoFigure == << >>

-----------------------------------------------------------------------------
(* Callbacks *)

KnownPaths == {"/", "/predictive", "/workforce", "/schedule",
               "/data-model", "/agents", "/value"}

\* The path names a browser may hand to display_page: the known ones, the
\* empty path, and paths the application does not know.
Paths == KnownPaths \cup {"", "/unknown", "/schedule/"}

\* The path is not known to the router: it answers with an error page
\* instead of the dashboard.
display_page_no_default(p) ==
    IF p = "/" \/ p = "" THEN "dashboard"
    ELSE IF p = "/predictive" THEN "predictive"
    ELSE IF p = "/workforce" THEN "workforce"
    ELSE IF p = "/schedule" THEN "schedule"
    ELSE IF p = "/data-model" THEN "data_model"
    ELSE IF p = "/agents" THEN "agents"
    ELSE IF p = "/value" THEN "value"
    ELSE "not_found"

\* display_page(pathname): the page builder the router calls.
display_page(p) ==
    IF p = "/" \/ p = "" THEN "dashboard"
    ELSE IF p = "/predictive" THEN "predictive"
    ELSE IF p = "/workforce" THEN "workforce"
    ELSE IF p = "/schedule" THEN "schedule"
    ELSE IF p = "/data-model" THEN "data_model"
    ELSE IF p = "/agents" THEN "agents"
    ELSE IF p = "/value" THEN "value"
    ELSE "dashboard"

DataModelButtons == {"btn-data-flow", "btn-star-schema", "btn-source-systems"}
AgentButtons == {"btn-agent-overview", "btn-mcp-servers", "btn-agent-comm"}
Buttons == DataModelButtons \cup AgentButtons

\* update_data_model_view: triggered is ctx.triggered, a sequence of the ids
\* of the components that triggered the callback.
update_data_model_view(triggered) ==
    IF triggered = << >> THEN "data_flow"
    ELSE LET button_id == triggered[1]
         IN  IF button_id = "btn-data-flow" THEN "data_flow"
             ELSE IF button_id = "btn-star-schema" THEN "star_schema"
             ELSE IF button_id = "btn-source-systems" THEN "data_flow"
             ELSE "data_flow"

update_agent_view(triggered) ==
    IF triggered = << >> THEN "agent_overview"
    ELSE LET button_id == triggered[1]
         IN  IF button_id = "btn-agent-overview" THEN "agent_overview"
             ELSE IF button_id = "btn-mcp-servers" THEN "mcp_servers"
             ELSE IF button_id = "btn-agent-comm" THEN "agent_communication"
             ELSE "agent_overview"

\* A div that is not part of the page shown has no content.
NotMounted == "not_mounted"

\* The trigger lists a request to a view callback may carry: none, one
\* component of the layout (a view button of either page, the url, an
\* interval), or two buttons changed at once (the callback reads the first).
Triggers ==
    {<< >>}
    \cup {<< c >> : c \in Buttons \cup {"url", "interval-component"}}
    \cup {<< "btn-star-schema", "btn-data-flow" >>,
          << "btn-agent-comm", "btn-mcp-servers" >>}

-----------------------------------------------------------------------------
(* The state machine *)

Init ==
    /\ workers_df = generate_workers
    /\ tasks_df = generate_maintenance_tasks
    /\ schedule_df = generate_schedule
    /\ pathname = "/"
    /\ page_content = display_page("/")
    /\ data_model_content = NotMounted
    /\ agent_view_content = NotMounted
    /\ n_clicks = [b \in Buttons |-> 0]
    /\ gantt_data = NoFigure
    /\ utilization = NoFigure
    /\ ctx_triggered = << "url" >>

\* A slip in create_schedule_page: worker_hours is schedule_df itself, not a
\* copy, so the conversion of its start and end columns is written into the
\* shared table (here: the timestamps become those of the elapsed hours).
DisplayPage_no_copy(p) ==
    LET page == display_page(p)
        converted(t) == ts(1, to_datetime(t))
    IN  /\ pathname' = p
        /\ page_content' = page
        /\ data_model_content' =
               IF page = "data_model" THEN "data_flow" ELSE NotMounted
        /\ agent_view_content' =
               IF page = "agents" THEN "agent_overview" ELSE NotMounted
        /\ n_clicks' = [b \in Buttons |-> 0]
        /\ gantt_data' =
               IF page = "schedule" THEN GanttRows(schedule_df, tasks_df)
               ELSE NoFigure
        /\ utilization' =
               IF page = "schedule" THEN Utilization(schedule_df) ELSE NoFigure
        /\ ctx_triggered' = << "url" >>
        /\ schedule_df' =
               IF page = "schedule"
               THEN [i \in 1..Len(schedule_df) |->
                        [schedule_df[i] EXCEPT !.start = converted(@),
                                               !.end = converted(@)]]
               ELSE schedule_df
        /\ UNCHANGED << workers_df, tasks_df >>

\* The browser navigates to p and display_page(p) replaces the page content.
\* The page builders read the tables; create_schedule_page works on a copy
\* of schedule_df.  A page rebuilt has fresh buttons and its default view.
DisplayPage(p) ==
    LET page == display_page(p)
    IN  /\ pathname' = p
        /\ page_content' = page
        /\ data_model_content' =
               IF page = "data_model" THEN "data_flow" ELSE NotMounted
        /\ agent_view_content' =
               IF page = "agents" THEN "agent_overview" ELSE NotMounted
        /\ n_clicks' = [b \in Buttons |-> 0]
        /\ gantt_data' =
               IF page = "schedule" THEN GanttRows(schedule_df, tasks_df)
               ELSE NoFigure
        /\ utilization' =
               IF page = "schedule" THEN Utilization(schedule_df) ELSE NoFigure
        /\ ctx_triggered' = << "url" >>
        /\ UNCHANGED tables

\* A click on a button of the data-model page fires update_data_model_view.
UpdateDataModelView(b) ==
    /\ page_content = "data_model"
    /\ n_clicks[b] < MaxClicks
    /\ n_clicks' = [n_clicks EXCEPT ![b] = @ + 1]
    /\ ctx_triggered' = << b >>
    /\ data_model_content' = update_data_model_view(<< b >>)
    /\ UNCHANGED << tables, pathname, page_content, agent_view_content,
                    gantt_data, utilization >>

\* A click on a button of the agents page fires update_agent_view.
UpdateAgentView(b) ==
    /\ page_content = "agents"
    /\ n_clicks[b] < MaxClicks
    /\ n_clicks' = [n_clicks EXCEPT ![b] = @ + 1]
    /\ ctx_triggered' = << b >>
    /\ agent_view_content' = update_agent_view(<< b >>)
    /\ UNCHANGED << tables, pathname, page_content, data_model_content,
                    gantt_data, utilization >>

\* A request to update_data_model_view that no click on the page's buttons
\* produced (the callback endpoint takes the trigger list from the request):
\* the callback runs with that trigger list and its result replaces the view.
RequestDataModelView(triggered) ==
    /\ page_content = "data_model"
    /\ ctx_triggered' = triggered
    /\ data_model_content' = update_data_model_view(triggered)
    /\ UNCHANGED << tables, pathname, page_content, agent_view_content,
                    n_clicks, gantt_data, utilization >>

\* The same for update_agent_view.
RequestAgentView(triggered) ==
    /\ page_content = "agents"
    /\ ctx_triggered' = triggered
    /\ agent_view_content' = update_agent_view(triggered)
    /\ UNCHANGED << tables, pathname, page_content, data_model_content,
                    n_clicks, gantt_data, utilization >>

Next ==
    \/ \E p \in Paths : DisplayPage(p)
    \/ \E b \in DataModelButtons : UpdateDataModelView(b)
    \/ \E b \in AgentButtons : UpdateAgentView(b)
    \/ \E t \in Triggers : RequestDataModelView(t)
    \/ \E t \in Triggers : RequestAgentView(t)

Spec == Init /\ [][Next]_vars

-----------------------------------------------------------------------------
(* Properties of the schedule table *)

Rows(df) == 1..Len(df)

\* Two half-open intervals [s1, e1) and [s2, e2) share a point in time.
Overlap(a, b) ==
    /\ to_datetime(a.start) < to_datetime(b.end)
    /\ to_datetime(b.start) < to_datetime(a.end)

\* C1: in every state of the program, no two rows of the schedule table with
\* the same worker id have overlapping half-open intervals [start, end).
C1_NoWorkerOverlap ==
    \A i, j \in Rows(schedule_df) :
        (i # j /\ schedule_df[i].worker_id = schedule_df[j].worker_id)
            => ~Overlap(schedule_df[i], schedule_df[j])

\* A state in which the schedule page has been built from a schedule that
\* gives one worker several assignments, two of them on different days and
\* two workers the same interval.
C1_Witness ==
    /\ page_content = "schedule"
    /\ Len(gantt_data) = Len(schedule_df)
    /\ \E i, j \in Rows(schedule_df) :
           /\ i # j
           /\ schedule_df[i].worker_id = schedule_df[j].worker_id
           /\ schedule_df[i].start # schedule_df[j].start
    /\ \E i, j \in Rows(schedule_df) :
           /\ schedule_df[i].worker_id # schedule_df[j].worker_id
           /\ Overlap(schedule_df[i], schedule_df[j])

\* The order of the certification levels: Journeyman < Senior.
CertLevel(c) == IF c = "Senior" THEN 2 ELSE 1

\* No task of the task table states a minimum certification: the minimum is
\* the lowest level.
MinCertification(task) == CertLevel("Journeyman")

\* qualifies(worker, task): the worker's skills include every skill the task
\* requires and the worker's certification is at least the task's minimum.
qualifies(worker, task) ==
    /\ task.skills_required \subseteq worker.skills
    /\ CertLevel(worker.certification) >= MinCertification(task)

\* C2: for every task whose status is Scheduled, every worker the schedule
\* assigns to it satisfies qualifies(worker, task).
C2_ScheduledWorkersQualify ==
    \A r \in Rows(schedule_df), t \in Rows(tasks_df), w \in Rows(workers_df) :
        ( /\ tasks_df[t].id = schedule_df[r].task_id
          /\ tasks_df[t].status = "Scheduled"
          /\ workers_df[w].id = schedule_df[r].worker_id )
            => qualifies(workers_df[w], tasks_df[t])

-----------------------------------------------------------------------------
(* Properties of the schedule against the task table *)

\* The statuses under which a task's assignments belong to the current
\* schedule (the task table writes InProgress as "In Progress").
CurrentStatuses == {"Scheduled", "In Progress"}

\* C16: the current schedule holds exactly the assignments of the tasks whose
\* status is Scheduled or InProgress: every row of the schedule belongs to
\* such a task, and every such task has a row in the schedule.
C16_CurrentScheduleMatchesStatus ==
    /\ \A r \in Rows(schedule_df) :
           \E t \in Rows(tasks_df) :
               /\ tasks_df[t].id = schedule_df[r].task_id
               /\ tasks_df[t].status \in CurrentStatuses
    /\ \A t \in Rows(tasks_df) :
           tasks_df[t].status \in CurrentStatuses
               => \E r \in Rows(schedule_df) :
                      schedule_df[r].task_id = tasks_df[t].id

-----------------------------------------------------------------------------
(* Properties of the utilization figure *)

\* The length of one assignment in hours, from the fields of its timestamps.
Duration(row) ==
    (row.end.day - row.start.day) * 24 + (row.end.hour - row.start.hour)

RECURSIVE CommittedHours(_, _)
\* The sum of Duration over the rows of df whose index is in the set idx.
CommittedHours(df, idx) ==
    IF idx = {} THEN 0
    ELSE LET i == CHOOSE k \in idx : TRUE
         IN  Duration(df[i]) + CommittedHours(df, idx \ {i})

AssignmentsOf(worker_id) ==
    {i \in Rows(schedule_df) : schedule_df[i].worker_id = worker_id}

\* C17: on the schedule page, the utilization of every worker of the roster
\* who has assignments is the sum of (end - start) in hours over that
\* worker's assignments, each worker of a co-scheduled task being counted
\* for it; a worker without assignment has no entry, and the figure has no
\* entry for anyone else.
C17_UtilizationIsSumOfHours ==
    page_content = "schedule" =>
        /\ \A w \in Rows(workers_df) :
               LET mine == AssignmentsOf(workers_df[w].id)
                   name == workers_df[w].name
               IN  IF mine = {}
                   THEN name \notin DOMAIN utilization
                   ELSE /\ name \in DOMAIN utilization
                        /\ utilization[name] = CommittedHours(schedule_df, mine)
        /\ DOMAIN utilization \subseteq
               {workers_df[w].name : w \in Rows(workers_df)}

\* The schedule page has been built: Sarah Chen has three assignments
\* (2 + 4 + 12 hours), James Wilson one that crosses midnight (6 hours),
\* both workers of the co-scheduled MT001 carry its 8 hours, and John
\* Mitchell, who has no assignment, has no entry.
C17_Witness ==
    /\ page_content = "schedule"
    /\ DOMAIN utilization # {}
    /\ utilization["Sarah Chen"] = 18
    /\ utilization["James Wilson"] = 6
    /\ utilization["Michael Rodriguez"] = 13
    /\ utilization["Robert Garcia"] = 8
    /\ "John Mitchell" \notin DOMAIN utilization

-----------------------------------------------------------------------------
(* Properties of the assignments against their tasks *)

\* The latest hour that is not after a due date given as a day: the midnight
\* that ends that day.
DueDeadline(task) == task.due_date * 24

\* C22: every assignment of the schedule is as long as its task's estimated
\* duration and ends no later than its task's due date.  (The code has no
\* pass time and no shift hours; the two conjuncts about them are left out,
\* which can only make this statement easier to satisfy.)
C22_AssignmentsFitTheirTasks ==
    \A r \in Rows(schedule_df), t \in Rows(tasks_df) :
        tasks_df[t].id = schedule_df[r].task_id =>
            /\ Duration(schedule_df[r]) = tasks_df[t].estimated_hours
            /\ to_datetime(schedule_df[r].end) <= DueDeadline(tasks_df[t])

-----------------------------------------------------------------------------
(* Properties of the presentation callbacks *)

\* C29: no step of the program (display_page with any page builder, the two
\* view callbacks) changes the worker, task or schedule table.
C29_RenderingLeavesTablesUnchanged ==
    [][ /\ workers_df' = workers_df
        /\ tasks_df' = tasks_df
        /\ schedule_df' = schedule_df ]_vars

\* The schedule page, the one page that computes on the schedule, has been
\* built, with its Gantt rows and its utilization figure.
C29_Witness ==
    /\ page_content = "schedule"
    /\ Len(gantt_data) = 10
    /\ DOMAIN utilization # {}
    /\ Len(schedule_df) = 10 /\ Len(tasks_df) = 8 /\ Len(workers_df) = 10

\* The page each known path stands for.
PageOf ==
    [p \in KnownPaths |->
        CASE p = "/"           -> "dashboard"
          [] p = "/predictive" -> "predictive"
          [] p = "/workforce"  -> "workforce"
          [] p = "/schedule"   -> "schedule"
          [] p = "/data-model" -> "data_model"
          [] p = "/agents"     -> "agents"
          [] p = "/value"      -> "value"]

\* C30: the page shown is the page of the path when the path is one of the
\* seven known ones (seven different pages), and the dashboard for the empty
\* and every other path; the data-model view is the star schema only after
\* the star-schema button and the data flow after every other trigger; the
\* agent view is the MCP servers or the communication view only after their
\* buttons and the overview after every other trigger.
C30_RoutingIsTotal ==
    /\ page_content =
           (IF pathname \in KnownPaths THEN PageOf[pathname] ELSE "dashboard")
    /\ \A p, q \in KnownPaths : PageOf[p] = PageOf[q] => p = q
    /\ page_content = "data_model" =>
           data_model_content =
               (IF ctx_triggered # << >> /\ ctx_triggered[1] = "btn-star-schema"
                THEN "star_schema" ELSE "data_flow")
    /\ page_content = "agents" =>
           agent_view_content =
               (IF ctx_triggered # << >> /\ ctx_triggered[1] = "btn-mcp-servers"
                THEN "mcp_servers"
                ELSE IF ctx_triggered # << >> /\ ctx_triggered[1] = "btn-agent-comm"
                THEN "agent_communication"
                ELSE "agent_overview")
    /\ page_content # "data_model" => data_model_content = NotMounted
    /\ page_content # "agents" => agent_view_content = NotMounted

\* The agents page, reached by its own path, after its view had been
\* switched by a click, has answered a trigger it does not recognise (a
\* button of the data-model page) with its default view.
C30_Witness ==
    /\ pathname = "/agents"
    /\ page_content = "agents"
    /\ n_clicks["btn-agent-comm"] > 0
    /\ ctx_triggered = << "btn-star-schema" >>
    /\ agent_view_content = "agent_overview"

====
